---- MODULE Spec2Model ----
(***************************************************************************)
(* Model of the micro-application viewer (MicroAppViewer): the bridge      *)
(* between the embedded WebView and the host, its credential queue, its    *)
(* namespaced storage and the loading / error flags of the WebView.        *)
(*                                                                         *)
(* Strings the code inspects character by character (appId, storage keys)  *)
(* are sequences of one-character strings; other strings are atoms.        *)
(***************************************************************************)
EXTENDS Integers, Sequences, FiniteSets, TLC

\* ------------------------------------------------------------- bounds
\* Inbound messages received over the whole run (all sessions together).
MaxReq == 2
\* Viewer sessions mounted over the whole run.
MaxSessions == 2
\* Changes of the session parameters clientId / exchangedToken over the whole run.
MaxParamChanges == 1

\* ------------------------------------------------------------- strings
Null == "null"
NoKey == << >>
NoId == << >>

IdA == <<"a">>
IdAB == <<"a", "_", "b">>
IdPublic == <<"p", "u", "b", "l", "i", "c">>
IdDevFile == <<"d", "e", "v", "e", "l", "o", "p", "e", "r", "_", "f", "i", "l", "e">>
AppIds == {IdA, IdAB, IdPublic, IdDevFile}

KeyC == <<"c">>
KeyBC == <<"b", "_", "c">>
Keys == {KeyC, KeyBC}
Values == {"v", "w"}
\* `auth_token_${Date.now()}`: a fetch follows a mount or a parameter change, and
\* the n-th of these gets the n-th token.
TokenNames == <<"tok1", "tok2", "tok3", "tok4", "tok5", "tok6">>
TokenOf(n) == TokenNames[n]
UriParams == {"none", "local", "remote"}

\* The sessions the host shell opens: identity, webViewUri, and whether clientId
\* and exchangedToken are supplied.
Session(id, uriParam, cid, tok) ==
    [appId |-> id, webViewUri |-> uriParam, clientId |-> cid, exchangedToken |-> tok]
SessionParams ==
    {Session(IdA, "remote", TRUE, TRUE),
     Session(IdAB, "remote", FALSE, FALSE),
     Session(IdA, "none", TRUE, TRUE),
     Session(IdPublic, "local", TRUE, TRUE),
     Session(IdDevFile, "remote", TRUE, FALSE)}

\* String.prototype.includes on character sequences.
Includes(s, sub) ==
    \E i \in 1..(Len(s) + 1 - Len(sub)) : SubSeq(s, i, i + Len(sub) - 1) = sub

\* appConfig, derived from appId.
IsDeveloper(id) == Includes(id, <<"d", "e", "v", "e", "l", "o", "p", "e", "r">>)
RequiresAuth(id) == ~Includes(id, <<"p", "u", "b", "l", "i", "c">>)
AllowsFileAccess(id) == Includes(id, <<"f", "i", "l", "e">>)

\* The physical AsyncStorage key: `microapp_${appId}_${key}`.
PhysicalKeyNoIdentity(id, key) ==
    <<"m", "i", "c", "r", "o", "a", "p", "p", "_">> \o key
PhysicalKey(id, key) ==
    <<"m", "i", "c", "r", "o", "a", "p", "p", "_">> \o id \o <<"_">> \o key

\* ------------------------------------------------------------- messages
ResponseTopics ==
    {"TOKEN", "QR_REQUEST", "SAVE_LOCAL_DATA", "GET_LOCAL_DATA",
     "CONFIRM_ALERT", "download_file", "upload_file"}
Topics == ResponseTopics \cup {"ALERT"}

\* What the content surface can post: raw text that is not JSON, an object
\* without a topic, and objects with a topic, with or without a data object.
Msg(kind, topic, hasData, key, value) ==
    [kind |-> kind, topic |-> topic, hasData |-> hasData, key |-> key, value |-> value]
Msgs ==
    {Msg("nonjson", "", FALSE, NoKey, Null), Msg("json", "", FALSE, NoKey, Null)}
    \cup {Msg("json", t, FALSE, NoKey, Null) : t \in Topics \cup {"bogus"}}
    \cup {Msg("json", "SAVE_LOCAL_DATA", TRUE, k, v) : k \in Keys, v \in Values}
    \cup {Msg("json", "GET_LOCAL_DATA", TRUE, k, Null) : k \in Keys}
    \cup {Msg("json", t, TRUE, NoKey, Null) : t \in {"ALERT", "CONFIRM_ALERT", "download_file"}}
    \cup {Msg("json", "ALERT", TRUE, NoKey, "Go")}

VARIABLES
    \* session parameters (useLocalSearchParams)
    mounted, sessions, appId, webViewUri, clientId, exchangedToken,
    \* component state (useState)
    isLoading, hasError, isScannerVisible, authToken, webUri,
    \* the ref holding the queued token continuations (arrival numbers)
    pendingTokenRequests,
    \* effects not yet run: the auth effect, the content-source effect
    authEffect, uriEffect,
    \* the native WebView: the load of the mounted view, callbacks of an abandoned load
    curLoad, staleLoad,
    \* the device: AsyncStorage, open confirmation dialogs, storage calls in flight
    storage, dialogs, ops,
    \* bookkeeping: messages received, QR requests waiting for the scanner, the
    \* writer of each storage key, the load whose failure set the error flag,
    \* parameter changes
    received, qrWaiting, origin, errFrom, paramChanges,
    \* bookkeeping: the value of the last completed save of each identity's key
    saved,
    \* the auth slice of the store, its thunks in flight in dispatch order, and
    \* the last action the slice reduced
    auth, thunks, authLast,
    \* what the last step did: the message it handled, the invocations it injected
    \* into the WebView, the alerts it showed, the continuations it called
    last

sessionVars == <<mounted, sessions, appId, webViewUri, clientId, exchangedToken>>
lifecycleVars == <<isLoading, hasError>>
loadVars == <<curLoad, staleLoad>>
brokerVars == <<authToken, pendingTokenRequests>>
deviceVars == <<storage, dialogs, ops>>
countVars == <<received, origin, paramChanges, saved>>
sliceVars == <<auth, thunks, authLast>>
\* Everything the bridge keeps or can change: all but the history of the last step.
bridgeVars ==
    <<isLoading, hasError, isScannerVisible, authToken, webUri, pendingTokenRequests,
      authEffect, uriEffect, storage, dialogs, ops>>
vars ==
    <<mounted, sessions, appId, webViewUri, clientId, exchangedToken,
      isLoading, hasError, isScannerVisible, authToken, webUri,
      pendingTokenRequests, authEffect, uriEffect, curLoad, staleLoad,
      storage, dialogs, ops,
      received, qrWaiting, origin, errFrom, paramChanges, saved,
      auth, thunks, authLast, last>>
\* Everything but the auth slice.
viewerVars ==
    <<mounted, sessions, appId, webViewUri, clientId, exchangedToken,
      isLoading, hasError, isScannerVisible, authToken, webUri,
      pendingTokenRequests, authEffect, uriEffect, curLoad, staleLoad,
      storage, dialogs, ops,
      received, qrWaiting, origin, errFrom, paramChanges, saved, last>>

\* ------------------------------------------------------------- rendering
\* renderWebView: which of its branches returns a WebView.
RenderWebView(uriParam, id, uri) ==
    IF uri = "ERROR" THEN "notfound"
    ELSE IF uriParam = "local" /\ uri # "" THEN "webview"
    ELSE IF IsDeveloper(id) /\ uriParam \notin {"none", "local"} THEN "webview"
    ELSE IF uriParam \notin {"none", "local"} THEN "webview"
    ELSE "unavailable"

\* The source prop renderWebView gives the WebView: the local bundle's html held
\* in webUri, or the URL of the webViewUri route parameter.
NoSource == [kind |-> "none", value |-> ""]
WebViewSource(uriParam, id, uri) ==
    IF RenderWebView(uriParam, id, uri) # "webview" THEN NoSource
    ELSE IF uriParam = "local" THEN [kind |-> "html", value |-> uri]
    ELSE [kind |-> "uri", value |-> uriParam]

\* The WebView is mounted (webviewRef.current is set) when the viewer is mounted,
\* the content area does not render the error view, and renderWebView returns it.
ShownIgnoringError(m, err, uri) == m /\ RenderWebView(webViewUri, appId, uri) = "webview"
Shown(m, err, uri) == m /\ ~err /\ RenderWebView(webViewUri, appId, uri) = "webview"
ViewShown == Shown(mounted, hasError, webUri)

Lifecycle == IF hasError THEN "Errored" ELSE IF isLoading THEN "Loading" ELSE "Ready"

\* ------------------------------------------------------------- the native WebView
\* What a render does to the native view: an unmounted view delivers nothing more;
\* a view that mounts starts a load; reload() on a mounted view starts a load and
\* abandons the one in progress, whose callbacks may still be delivered.
LoadAfter(before, after, reloadCalled) ==
    IF ~after THEN [cur |-> "none", stale |-> FALSE]
    ELSE IF ~before THEN [cur |-> "pending", stale |-> FALSE]
    ELSE IF reloadCalled THEN [cur |-> "pending", stale |-> staleLoad \/ curLoad # "none"]
    ELSE [cur |-> curLoad, stale |-> staleLoad]

\* ------------------------------------------------------------- outbound
\* sendResponseToWeb: webviewRef.current?.injectJavaScript(...); nothing is
\* injected while no WebView is mounted.  req is the request answered (0: none).
SendResponseToWeb(out, shown, method, data, req) ==
    IF shown THEN Append(out, [method |-> method, data |-> data, req |-> req]) ELSE out

\* handleAlert: one native alert; buttonText = "OK" when the argument is
\* undefined.
HandleAlertNoDefault(title, message, buttonText) ==
    <<[title |-> title, message |-> message, button |-> buttonText]>>
HandleAlert(title, message, buttonText) ==
    <<[title |-> title, message |-> message,
       button |-> IF buttonText = Null THEN "OK" ELSE buttonText]>>

\* ------------------------------------------------------------- history of a step
NoMsg == Msg("none", "", FALSE, NoKey, Null)
NoDrain == [before |-> << >>, token |-> Null, calls |-> << >>]
\* event: the step; msg, life, handled: the message handled, the lifecycle state
\* it arrived in and what became of it; settled: the requests the step finished;
\* sent, shown: invocations injected and alerts shown; drain: the queue before
\* the step, the token and the continuations called; app, key, from: the
\* identity and key of a storage call and the identity that wrote the value read.
\* A step that handles no message, sends nothing and shows nothing leaves Idle.
Idle ==
    [event |-> "idle", msg |-> NoMsg, life |-> "-", handled |-> "-",
     settled |-> {}, sent |-> << >>, shown |-> << >>, drain |-> NoDrain,
     app |-> NoId, key |-> NoKey, from |-> NoId]
Step(event, msg, handled, settled, sent, shown) ==
    [Idle EXCEPT !.event = event, !.msg = msg,
                 !.life = IF event = "message" THEN Lifecycle ELSE "-",
                 !.handled = handled, !.settled = settled, !.sent = sent,
                 !.shown = shown]

\* ------------------------------------------------------------- credential queue
\* Array.prototype.shift on the queue: the first entry and the rest.
ShiftFromEnd(q) == [item |-> q[Len(q)], rest |-> SubSeq(q, 1, Len(q) - 1)]
Shift(q) == [item |-> Head(q), rest |-> Tail(q)]

\* sendTokenToWebView(token) on st = [queue, out, calls]: one resolveToken, then the
\* queue is drained; each queued continuation is sendTokenToWebView itself.
\* calls records the continuations invoked, in order, with their argument.
RECURSIVE SendTokenToWebView(_, _, _, _)
RECURSIVE DrainPending(_, _, _)
SendTokenToWebView(st, shown, token, req) ==
    IF token = Null THEN st
    ELSE DrainPending(
             [st EXCEPT !.out = SendResponseToWeb(@, shown, "resolveToken", token, req)],
             shown, token)
DrainPendingDropsRest(st, shown, token) ==
    IF Len(st.queue) = 0 THEN st
    ELSE [st EXCEPT !.queue = << >>,
                    !.calls = Append(@, <<Head(st.queue), token>>),
                    !.out = SendResponseToWeb(@, shown, "resolveToken", token,
                                              Head(st.queue))]
DrainPending(st, shown, token) ==
    IF Len(st.queue) = 0 THEN st
    ELSE LET s == Shift(st.queue)
             called == [st EXCEPT !.queue = s.rest,
                                  !.calls = Append(@, <<s.item, token>>)]
         IN  DrainPending(SendTokenToWebView(called, shown, token, s.item), shown, token)

\* The requests whose continuation a drain called.
Called(calls) == {calls[j][1] : j \in DOMAIN calls}

\* ------------------------------------------------------------- auth slice
\* Thunks in flight at once.
MaxInFlight == 2
\* Credentials submitted to loginUser and payloads of setAccessToken.
Usernames == {"", "alice", "bob"}
Passwords == {"", "secret"}
AccessTokenPayloads == {"token"}

\* The delays the payload creators await before they settle (ms).
LoginDelay == 1000
RefreshDelay == 500
LogoutDelay == 300

\* userInfo: null, or the user_info of a login response.
NoUserInfo == << >>
UserInfo(username, email) == <<username, email>>

initialState ==
    [accessToken |-> Null, refreshToken |-> Null, isAuthenticated |-> FALSE,
     isLoading |-> FALSE, userInfo |-> NoUserInfo, error |-> Null]

\* The response loginUser returns (the time stamp of the tokens is left out: no
\* reducer reads it).
LoginResponse(username) ==
    [access_token |-> "dummy_jwt_token_" \o username,
     refresh_token |-> "dummy_refresh_token_" \o username,
     user_info |-> UserInfo(username, username \o "@government.lk")]
\* The response refreshToken returns.
RefreshResponse == [access_token |-> "refreshed_token"]

\* reducers
clearError(state) == [state EXCEPT !.error = Null]
setAccessToken(state, payload) ==
    [state EXCEPT !.accessToken = payload, !.isAuthenticated = TRUE]
loadDummyAuth(state) ==
    [state EXCEPT !.accessToken = "dummy_demo_token",
                  !.refreshToken = "dummy_demo_refresh",
                  !.isAuthenticated = TRUE,
                  !.userInfo = UserInfo("demo.user", "demo.user@government.lk"),
                  !.error = Null]
resetAuth(state) == initialState

\* extraReducers
loginUser_pending(state) == [state EXCEPT !.isLoading = TRUE, !.error = Null]
loginUser_fulfilled(state, payload) ==
    [state EXCEPT !.isLoading = FALSE,
                  !.isAuthenticated = TRUE,
                  !.accessToken = payload.access_token,
                  !.refreshToken = IF payload.refresh_token = "" THEN Null
                                   ELSE payload.refresh_token,
                  !.userInfo = payload.user_info,
                  !.error = Null]
loginUser_rejectedKeepsTokens(state, payload) ==
    [state EXCEPT !.isLoading = FALSE,
                  !.isAuthenticated = FALSE,
                  !.error = payload]
loginUser_rejected(state, payload) ==
    [state EXCEPT !.isLoading = FALSE,
                  !.isAuthenticated = FALSE,
                  !.accessToken = Null,
                  !.refreshToken = Null,
                  !.userInfo = NoUserInfo,
                  !.error = payload]
refreshToken_pending(state) == [state EXCEPT !.isLoading = TRUE]
refreshToken_fulfilled(state, payload) ==
    [state EXCEPT !.isLoading = FALSE,
                  !.accessToken = payload.access_token,
                  !.error = Null]
refreshToken_rejectedKeepsSession(state, payload) ==
    [state EXCEPT !.isLoading = FALSE,
                  !.accessToken = Null,
                  !.refreshToken = Null,
                  !.userInfo = NoUserInfo,
                  !.error = payload]
refreshToken_rejected(state, payload) ==
    [state EXCEPT !.isLoading = FALSE,
                  !.isAuthenticated = FALSE,
                  !.accessToken = Null,
                  !.refreshToken = Null,
                  !.userInfo = NoUserInfo,
                  !.error = payload]
logoutUser_pending(state) == [state EXCEPT !.isLoading = TRUE]
logoutUser_fulfilled(state) == initialState

\* A thunk in flight: its type, its argument, whether its payload creator will
\* return (ok) or throw, and the delay it awaits first.
Thunk(type, username, password, ok, delay) ==
    [type |-> type, username |-> username, password |-> password, ok |-> ok,
     delay |-> delay]
\* The last action the slice reduced, with the credentials of the thunk it
\* belongs to.
Action(type, username, password) ==
    [type |-> type, username |-> username, password |-> password]
NoAction == Action("@@INIT", "", "")

\* Thunks settle as their timers fire: a thunk dispatched earlier with a delay
\* no longer than another's settles before it, and one that throws before its
\* first await settles before any timer fires.
CanSettle(i) ==
    /\ i \in DOMAIN thunks
    /\ \A j \in DOMAIN thunks \ {i} :
           /\ ~(j < i /\ thunks[j].delay <= thunks[i].delay)
           /\ ~(thunks[j].delay = 0 /\ thunks[i].delay > 0)
Settled(i) == SubSeq(thunks, 1, i - 1) \o SubSeq(thunks, i + 1, Len(thunks))

\* dispatch(loginUser(credentials)): pending is reduced at once.
DispatchLogin(username, password) ==
    /\ Len(thunks) < MaxInFlight
    /\ auth' = loginUser_pending(auth)
    /\ thunks' = Append(thunks, Thunk("loginUser", username, password,
                                      username # "" /\ password # "", LoginDelay))
    /\ authLast' = Action("loginUser/pending", username, password)
    /\ UNCHANGED viewerVars

\* loginUser after its delay: the response, or the rejection with the message
\* of the error it threw.
LoginSettles(i) ==
    /\ CanSettle(i) /\ thunks[i].type = "loginUser"
    /\ thunks' = Settled(i)
    /\ IF thunks[i].ok
       THEN /\ auth' = loginUser_fulfilled(auth, LoginResponse(thunks[i].username))
            /\ authLast' = Action("loginUser/fulfilled", thunks[i].username,
                                  thunks[i].password)
       ELSE /\ auth' = loginUser_rejected(auth, "Username and password are required")
            /\ authLast' = Action("loginUser/rejected", thunks[i].username,
                                  thunks[i].password)
    /\ UNCHANGED viewerVars

\* dispatch(refreshToken()): pending is reduced, then the payload creator reads
\* the refresh token of the state and throws at once when there is none.
DispatchRefresh ==
    /\ Len(thunks) < MaxInFlight
    /\ auth' = refreshToken_pending(auth)
    /\ LET has == auth'.refreshToken # Null
       IN  thunks' = Append(thunks, Thunk("refreshToken", "", "", has,
                                          IF has THEN RefreshDelay ELSE 0))
    /\ authLast' = Action("refreshToken/pending", "", "")
    /\ UNCHANGED viewerVars

RefreshSettles(i) ==
    /\ CanSettle(i) /\ thunks[i].type = "refreshToken"
    /\ thunks' = Settled(i)
    /\ IF thunks[i].ok
       THEN /\ auth' = refreshToken_fulfilled(auth, RefreshResponse)
            /\ authLast' = Action("refreshToken/fulfilled", "", "")
       ELSE /\ auth' = refreshToken_rejected(auth, "No refresh token available")
            /\ authLast' = Action("refreshToken/rejected", "", "")
    /\ UNCHANGED viewerVars

\* dispatch(logoutUser()): pending is reduced; the payload creator only awaits
\* its delay and returns.
DispatchLogout ==
    /\ Len(thunks) < MaxInFlight
    /\ auth' = logoutUser_pending(auth)
    /\ thunks' = Append(thunks, Thunk("logoutUser", "", "", TRUE, LogoutDelay))
    /\ authLast' = Action("logoutUser/pending", "", "")
    /\ UNCHANGED viewerVars

LogoutSettles(i) ==
    /\ CanSettle(i) /\ thunks[i].type = "logoutUser"
    /\ thunks' = Settled(i)
    /\ auth' = logoutUser_fulfilled(auth)
    /\ authLast' = Action("logoutUser/fulfilled", "", "")
    /\ UNCHANGED viewerVars

\* The plain reducers, dispatched at any time.
ClearError ==
    /\ auth' = clearError(auth)
    /\ authLast' = Action("auth/clearError", "", "")
    /\ UNCHANGED <<viewerVars, thunks>>
SetAccessToken(payload) ==
    /\ auth' = setAccessToken(auth, payload)
    /\ authLast' = Action("auth/setAccessToken", "", "")
    /\ UNCHANGED <<viewerVars, thunks>>
LoadDummyAuth ==
    /\ auth' = loadDummyAuth(auth)
    /\ authLast' = Action("auth/loadDummyAuth", "", "")
    /\ UNCHANGED <<viewerVars, thunks>>
ResetAuth ==
    /\ auth' = resetAuth(auth)
    /\ authLast' = Action("auth/resetAuth", "", "")
    /\ UNCHANGED <<viewerVars, thunks>>

\* ------------------------------------------------------------- sessions
\* The effects of a render are flushed, in the order the component declares them,
\* before the next event is handled.
EffectsFlushed == ~authEffect /\ uriEffect # "pending"

\* A viewer instance after its first render: every useState and useRef at its
\* initial value, both effects still to run.
FreshInstance(id, uriParam, cid, tok) ==
    /\ mounted' = TRUE
    /\ appId' = id
    /\ webViewUri' = uriParam
    /\ clientId' = cid
    /\ exchangedToken' = tok
    /\ isLoading' = TRUE
    /\ hasError' = FALSE
    /\ isScannerVisible' = FALSE
    /\ authToken' = Null
    /\ webUri' = ""
    /\ pendingTokenRequests' = << >>
    /\ authEffect' = TRUE
    /\ uriEffect' = "pending"
    /\ curLoad' = IF RenderWebView(uriParam, id, "") = "webview" THEN "pending" ELSE "none"
    /\ staleLoad' = FALSE

Init ==
    /\ mounted = TRUE
    /\ sessions = 1
    /\ \E p \in SessionParams :
           /\ appId = p.appId
           /\ webViewUri = p.webViewUri
           /\ clientId = p.clientId
           /\ exchangedToken = p.exchangedToken
    /\ isLoading = TRUE
    /\ hasError = FALSE
    /\ isScannerVisible = FALSE
    /\ authToken = Null
    /\ webUri = ""
    /\ pendingTokenRequests = << >>
    /\ authEffect = TRUE
    /\ uriEffect = "pending"
    /\ curLoad = IF RenderWebView(webViewUri, appId, "") = "webview" THEN "pending" ELSE "none"
    /\ staleLoad = FALSE
    /\ storage = << >>
    /\ dialogs = {}
    /\ ops = {}
    /\ received = 0
    /\ qrWaiting = {}
    /\ origin = << >>
    /\ errFrom = "none"
    /\ paramChanges = 0
    /\ saved = << >>
    /\ auth = initialState
    /\ thunks = << >>
    /\ authLast = NoAction
    /\ last = Idle

\* The back button: router.back() unmounts the viewer.  The component has no
\* cleanup effect, so nothing of its state is written; the native WebView goes
\* away with the view.
NavigateBack ==
    /\ mounted /\ EffectsFlushed
    /\ mounted' = FALSE
    /\ curLoad' = "none"
    /\ staleLoad' = FALSE
    /\ last' = Idle
    /\ UNCHANGED <<sessions, appId, webViewUri, clientId, exchangedToken,
                   lifecycleVars, isScannerVisible, webUri, brokerVars,
                   authEffect, uriEffect, deviceVars, countVars, sliceVars, qrWaiting, errFrom>>

\* router.push to the viewer: a new instance with its own state and ref.
Mount ==
    /\ ~mounted
    /\ sessions < MaxSessions
    /\ sessions' = sessions + 1
    /\ \E p \in SessionParams :
           FreshInstance(p.appId, p.webViewUri, p.clientId, p.exchangedToken)
    /\ errFrom' = "none"
    /\ qrWaiting' = {}
    /\ last' = Idle
    /\ UNCHANGED <<deviceVars, countVars, sliceVars>>

\* The session parameters the auth effect depends on change.
ParamsChange ==
    /\ mounted /\ EffectsFlushed
    /\ paramChanges < MaxParamChanges
    /\ paramChanges' = paramChanges + 1
    /\ \E cid \in BOOLEAN, tok \in BOOLEAN :
           /\ <<cid, tok>> # <<clientId, exchangedToken>>
           /\ clientId' = cid
           /\ exchangedToken' = tok
    /\ authEffect' = TRUE
    /\ last' = Idle
    /\ UNCHANGED <<mounted, sessions, appId, webViewUri,
                   lifecycleVars, isScannerVisible, webUri, brokerVars,
                   uriEffect, loadVars, deviceVars,
                   received, qrWaiting, origin, saved, sliceVars, errFrom>>

\* ------------------------------------------------------------- credential fetch
\* The auth effect when its condition is false: fetchAuthToken is not called.
AuthEffectSkips ==
    /\ mounted /\ authEffect
    /\ ~(RequiresAuth(appId) /\ exchangedToken /\ clientId)
    /\ authEffect' = FALSE
    /\ last' = Idle
    /\ UNCHANGED <<sessionVars, lifecycleVars, isScannerVisible, webUri, brokerVars,
                   uriEffect, loadVars, deviceVars, countVars, sliceVars, qrWaiting, errFrom>>

\* fetchAuthToken, try block: the token is stored and sent, the queue drained.
FetchAuthTokenKeepsQueue ==
    /\ mounted /\ authEffect
    /\ RequiresAuth(appId) /\ exchangedToken /\ clientId
    /\ LET token == TokenOf(sessions + paramChanges)
           st == [queue |-> pendingTokenRequests,
                  out |-> SendResponseToWeb(<< >>, ViewShown, "resolveToken", token, 0),
                  calls |-> << >>]
       IN  /\ authToken' = token
           /\ pendingTokenRequests' = st.queue
           /\ last' = [Step("fetched", NoMsg, "-", Called(st.calls), st.out, << >>)
                          EXCEPT !.drain = [before |-> pendingTokenRequests,
                                            token |-> token, calls |-> st.calls]]
    /\ authEffect' = FALSE
    /\ UNCHANGED <<sessionVars, lifecycleVars, isScannerVisible, webUri,
                   uriEffect, loadVars, deviceVars, received, origin, saved, sliceVars, paramChanges,
                   qrWaiting, errFrom>>
FetchAuthTokenIgnoresRequiresAuth ==
    /\ mounted /\ authEffect
    /\ exchangedToken /\ clientId
    /\ LET token == TokenOf(sessions + paramChanges)
           st == SendTokenToWebView(
                     [queue |-> pendingTokenRequests, out |-> << >>, calls |-> << >>],
                     ViewShown, token, 0)
       IN  /\ authToken' = token
           /\ pendingTokenRequests' = st.queue
           /\ last' = [Step("fetched", NoMsg, "-", Called(st.calls), st.out, << >>)
                          EXCEPT !.drain = [before |-> pendingTokenRequests,
                                            token |-> token, calls |-> st.calls]]
    /\ authEffect' = FALSE
    /\ UNCHANGED <<sessionVars, lifecycleVars, isScannerVisible, webUri,
                   uriEffect, loadVars, deviceVars, received, origin, saved, sliceVars, paramChanges,
                   qrWaiting, errFrom>>
FetchAuthToken ==
    /\ mounted /\ authEffect
    /\ RequiresAuth(appId) /\ exchangedToken /\ clientId
    /\ LET token == TokenOf(sessions + paramChanges)
           st == SendTokenToWebView(
                     [queue |-> pendingTokenRequests, out |-> << >>, calls |-> << >>],
                     ViewShown, token, 0)
       IN  /\ authToken' = token
           /\ pendingTokenRequests' = st.queue
           /\ last' = [Step("fetched", NoMsg, "-", Called(st.calls), st.out, << >>)
                          EXCEPT !.drain = [before |-> pendingTokenRequests,
                                            token |-> token, calls |-> st.calls]]
    /\ authEffect' = FALSE
    /\ UNCHANGED <<sessionVars, lifecycleVars, isScannerVisible, webUri,
                   uriEffect, loadVars, deviceVars, received, origin, saved, sliceVars, paramChanges,
                   qrWaiting, errFrom>>

\* fetchAuthToken, catch block: the acquisition threw; the error is logged and an
\* alert is shown.
FetchAuthTokenFails ==
    /\ mounted /\ authEffect
    /\ RequiresAuth(appId) /\ exchangedToken /\ clientId
    /\ last' = Step("fetchFailed", NoMsg, "-", {}, << >>,
                    HandleAlert("Authentication Error",
                                "Failed to authenticate user. Please try again.", Null))
    /\ authEffect' = FALSE
    /\ UNCHANGED <<sessionVars, lifecycleVars, isScannerVisible, webUri, brokerVars,
                   uriEffect, loadVars, deviceVars, received, origin, saved, sliceVars, paramChanges,
                   qrWaiting, errFrom>>

\* ------------------------------------------------------------- content source
\* The content-source effect: a remote URL is stored at once, local content is
\* looked up asynchronously.
UriEffect ==
    /\ mounted /\ ~authEffect /\ uriEffect = "pending"
    /\ IF webViewUri \in {"none", "local"}
       THEN uriEffect' = "loading" /\ webUri' = webUri
       ELSE uriEffect' = "done" /\ webUri' = "remote"
    /\ last' = Idle
    /\ UNCHANGED <<sessionVars, lifecycleVars, isScannerVisible, brokerVars,
                   authEffect, loadVars, deviceVars, countVars, sliceVars, qrWaiting, errFrom>>

\* The local lookup ends: the bundle's html, or 'ERROR' when it is not there.
LocalLoadDone(found) ==
    /\ mounted /\ EffectsFlushed /\ uriEffect = "loading"
    /\ uriEffect' = "done"
    /\ webUri' = IF found THEN "html" ELSE "ERROR"
    /\ LET l == LoadAfter(ViewShown, Shown(mounted, hasError, webUri'), FALSE)
       IN  curLoad' = l.cur /\ staleLoad' = l.stale
    /\ last' = Idle
    /\ UNCHANGED <<sessionVars, lifecycleVars, isScannerVisible, brokerVars,
                   authEffect, deviceVars, countVars, sliceVars, qrWaiting, errFrom>>

\* ------------------------------------------------------------- lifecycle
\* handleWebViewError: the error flag is set, the loading flag cleared, whatever
\* load the event belongs to.  The error view replaces the WebView.
HandleWebViewErrorKeepsLoading(from) ==
    /\ hasError' = TRUE
    /\ isLoading' = isLoading
    /\ errFrom' = from
    /\ curLoad' = "none"
    /\ staleLoad' = FALSE
HandleWebViewError(from) ==
    /\ hasError' = TRUE
    /\ isLoading' = FALSE
    /\ errFrom' = from
    /\ curLoad' = "none"
    /\ staleLoad' = FALSE

\* reloadWebView: clear the error flag, set the loading flag, reload the view.
ReloadWebViewKeepsLoadingFlag ==
    /\ hasError' = FALSE
    /\ isLoading' = isLoading
    /\ errFrom' = "none"
    /\ LET l == LoadAfter(ViewShown, Shown(mounted, FALSE, webUri'), TRUE)
       IN  curLoad' = l.cur /\ staleLoad' = l.stale
ReloadWebView ==
    /\ hasError' = FALSE
    /\ isLoading' = TRUE
    /\ errFrom' = "none"
    /\ LET l == LoadAfter(ViewShown, Shown(mounted, FALSE, webUri'), TRUE)
       IN  curLoad' = l.cur /\ staleLoad' = l.stale

OnLoadStart ==
    /\ EffectsFlushed /\ curLoad = "pending"
    /\ curLoad' = "started"
    /\ isLoading' = TRUE
    /\ last' = Idle
    /\ UNCHANGED <<sessionVars, hasError, isScannerVisible, webUri, brokerVars,
                   authEffect, uriEffect, staleLoad, deviceVars, countVars, sliceVars, qrWaiting,
                   errFrom>>

OnLoadEnd ==
    /\ EffectsFlushed /\ curLoad = "started"
    /\ curLoad' = "none"
    /\ isLoading' = FALSE
    /\ last' = Idle
    /\ UNCHANGED <<sessionVars, hasError, isScannerVisible, webUri, brokerVars,
                   authEffect, uriEffect, staleLoad, deviceVars, countVars, sliceVars, qrWaiting,
                   errFrom>>

OnError ==
    /\ EffectsFlushed /\ curLoad \in {"pending", "started"}
    /\ HandleWebViewError("current")
    /\ last' = Idle
    /\ UNCHANGED <<sessionVars, isScannerVisible, webUri, brokerVars,
                   authEffect, uriEffect, deviceVars, countVars, sliceVars, qrWaiting>>

\* Callbacks of a load that reload() abandoned, delivered after the reload.
StaleOnLoadEnd ==
    /\ EffectsFlushed /\ staleLoad
    /\ staleLoad' = FALSE
    /\ isLoading' = FALSE
    /\ last' = Idle
    /\ UNCHANGED <<sessionVars, hasError, isScannerVisible, webUri, brokerVars,
                   authEffect, uriEffect, curLoad, deviceVars, countVars, sliceVars, qrWaiting,
                   errFrom>>

StaleOnError ==
    /\ EffectsFlushed /\ staleLoad
    /\ HandleWebViewError("abandoned")
    /\ last' = Idle
    /\ UNCHANGED <<sessionVars, isScannerVisible, webUri, brokerVars,
                   authEffect, uriEffect, deviceVars, countVars, sliceVars, qrWaiting>>

\* "Try Again" in the error view.
RetryPressClearsQueue ==
    /\ mounted /\ EffectsFlushed /\ hasError
    /\ webUri' = webUri
    /\ ReloadWebView
    /\ pendingTokenRequests' = << >>
    /\ last' = Step("retry", NoMsg, "-", {}, << >>, << >>)
    /\ UNCHANGED <<sessionVars, isScannerVisible, authToken,
                   authEffect, uriEffect, deviceVars, countVars, sliceVars, qrWaiting>>
RetryPress ==
    /\ mounted /\ EffectsFlushed /\ hasError
    /\ webUri' = webUri
    /\ ReloadWebView
    /\ last' = Step("retry", NoMsg, "-", {}, << >>, << >>)
    /\ UNCHANGED <<sessionVars, isScannerVisible, brokerVars,
                   authEffect, uriEffect, deviceVars, countVars, sliceVars, qrWaiting>>

\* handleDeveloperUrlInput, "Set URL" with a non-empty url.
DeveloperSetUrl ==
    /\ mounted /\ EffectsFlushed /\ IsDeveloper(appId)
    /\ webUri' = "devurl"
    /\ ReloadWebView
    /\ last' = Idle
    /\ UNCHANGED <<sessionVars, isScannerVisible, brokerVars,
                   authEffect, uriEffect, deviceVars, countVars, sliceVars, qrWaiting>>

\* ------------------------------------------------------------- message router
\* onMessage fires for a mounted WebView, whatever the loading flag says.
Receives(msg) == ViewShown /\ EffectsFlushed /\ received < MaxReq /\ msg \in Msgs

\* handleMessage's catch block: the error is logged; nothing is sent.
CatchHandlerRejects(req) == <<[method |-> "rejectMessage", data |-> "error", req |-> req]>>
CatchHandler(req) == << >>

\* JSON.parse throws: caught and logged.
MsgNotJson(msg) ==
    /\ Receives(msg) /\ msg.kind = "nonjson"
    /\ received' = received + 1
    /\ last' = Step("message", msg, "dropped", {received + 1},
                    CatchHandler(received + 1), << >>)
    /\ UNCHANGED <<sessionVars, lifecycleVars, isScannerVisible, webUri, brokerVars,
                   authEffect, uriEffect, loadVars, deviceVars,
                   origin, saved, sliceVars, paramChanges, qrWaiting, errFrom>>

\* No topic: a warning, then return.  An unknown topic: a warning.
MsgIgnoredRejects(msg) ==
    /\ Receives(msg) /\ msg.kind = "json" /\ msg.topic \notin Topics
    /\ received' = received + 1
    /\ last' = Step("message", msg, "dropped", {received + 1},
                    SendResponseToWeb(<< >>, ViewShown, "rejectMessage",
                                      "unknown topic", received + 1),
                    << >>)
    /\ UNCHANGED <<sessionVars, lifecycleVars, isScannerVisible, webUri, brokerVars,
                   authEffect, uriEffect, loadVars, deviceVars,
                   origin, saved, sliceVars, paramChanges, qrWaiting, errFrom>>
MsgIgnored(msg) ==
    /\ Receives(msg) /\ msg.kind = "json" /\ msg.topic \notin Topics
    /\ received' = received + 1
    /\ last' = Step("message", msg, "dropped", {received + 1}, << >>, << >>)
    /\ UNCHANGED <<sessionVars, lifecycleVars, isScannerVisible, webUri, brokerVars,
                   authEffect, uriEffect, loadVars, deviceVars,
                   origin, saved, sliceVars, paramChanges, qrWaiting, errFrom>>

\* TOPIC.TOKEN: answered from the held token, or queued.
MsgTokenAlwaysQueues(msg) ==
    /\ Receives(msg) /\ msg.kind = "json" /\ msg.topic = "TOKEN"
    /\ received' = received + 1
    /\ pendingTokenRequests' = Append(pendingTokenRequests, received + 1)
    /\ last' = Step("message", msg, "queued", {}, << >>, << >>)
    /\ UNCHANGED <<sessionVars, lifecycleVars, isScannerVisible, webUri, authToken,
                   authEffect, uriEffect, loadVars, deviceVars,
                   origin, saved, sliceVars, paramChanges, qrWaiting, errFrom>>
MsgToken(msg) ==
    /\ Receives(msg) /\ msg.kind = "json" /\ msg.topic = "TOKEN"
    /\ received' = received + 1
    /\ LET r == received + 1
           st == SendTokenToWebView(
                     [queue |-> pendingTokenRequests, out |-> << >>, calls |-> << >>],
                     ViewShown, authToken, r)
       IN  IF authToken # Null
           THEN /\ pendingTokenRequests' = st.queue
                /\ last' = [Step("message", msg, "done", {r} \cup Called(st.calls),
                                 st.out, << >>)
                               EXCEPT !.drain = [before |-> pendingTokenRequests,
                                                 token |-> authToken,
                                                 calls |-> st.calls]]
           ELSE /\ pendingTokenRequests' = Append(pendingTokenRequests, r)
                /\ last' = Step("message", msg, "queued", {}, << >>, << >>)
    /\ UNCHANGED <<sessionVars, lifecycleVars, isScannerVisible, webUri, authToken,
                   authEffect, uriEffect, loadVars, deviceVars,
                   origin, saved, sliceVars, paramChanges, qrWaiting, errFrom>>

\* TOPIC.QR_REQUEST: the scanner overlay is shown.
MsgQrRequest(msg) ==
    /\ Receives(msg) /\ msg.kind = "json" /\ msg.topic = "QR_REQUEST"
    /\ received' = received + 1
    /\ isScannerVisible' = TRUE
    /\ qrWaiting' = qrWaiting \cup {received + 1}
    /\ last' = Step("message", msg, "waiting", {}, << >>, << >>)
    /\ UNCHANGED <<sessionVars, lifecycleVars, webUri, brokerVars,
                   authEffect, uriEffect, loadVars, deviceVars,
                   origin, saved, sliceVars, paramChanges, errFrom>>

\* A topic whose case reads message.data.<field>, posted without a data object:
\* the read throws a TypeError, which handleMessage's catch block logs.
MsgWithoutDataSetsError(msg) ==
    /\ Receives(msg) /\ msg.kind = "json" /\ ~msg.hasData
    /\ msg.topic \in {"SAVE_LOCAL_DATA", "GET_LOCAL_DATA", "ALERT", "CONFIRM_ALERT",
                      "download_file"}
    /\ received' = received + 1
    /\ hasError' = TRUE
    /\ last' = Step("message", msg, "threw", {received + 1},
                    CatchHandler(received + 1), << >>)
    /\ UNCHANGED <<sessionVars, isLoading, isScannerVisible, webUri, brokerVars,
                   authEffect, uriEffect, loadVars, deviceVars,
                   origin, saved, sliceVars, paramChanges, qrWaiting, errFrom>>
MsgWithoutData(msg) ==
    /\ Receives(msg) /\ msg.kind = "json" /\ ~msg.hasData
    /\ msg.topic \in {"SAVE_LOCAL_DATA", "GET_LOCAL_DATA", "ALERT", "CONFIRM_ALERT",
                      "download_file"}
    /\ received' = received + 1
    /\ last' = Step("message", msg, "threw", {received + 1},
                    CatchHandler(received + 1), << >>)
    /\ UNCHANGED <<sessionVars, lifecycleVars, isScannerVisible, webUri, brokerVars,
                   authEffect, uriEffect, loadVars, deviceVars,
                   origin, saved, sliceVars, paramChanges, qrWaiting, errFrom>>

\* TOPIC.SAVE_LOCAL_DATA / TOPIC.GET_LOCAL_DATA: the AsyncStorage call is issued
\* under the namespaced key and awaited.
MsgStorage(msg) ==
    /\ Receives(msg) /\ msg.kind = "json" /\ msg.hasData
    /\ msg.topic \in {"SAVE_LOCAL_DATA", "GET_LOCAL_DATA"}
    /\ received' = received + 1
    /\ ops' = ops \cup {[req |-> received + 1, session |-> sessions,
                         kind |-> msg.topic, app |-> appId, key |-> msg.key,
                         pkey |-> PhysicalKey(appId, msg.key), value |-> msg.value]}
    /\ last' = Step("message", msg, "running", {}, << >>, << >>)
    /\ UNCHANGED <<sessionVars, lifecycleVars, isScannerVisible, webUri, brokerVars,
                   authEffect, uriEffect, loadVars, storage, dialogs,
                   origin, saved, sliceVars, paramChanges, qrWaiting, errFrom>>

\* TOPIC.ALERT: a native alert; nothing is sent back.
MsgAlert(msg) ==
    /\ Receives(msg) /\ msg.kind = "json" /\ msg.hasData /\ msg.topic = "ALERT"
    /\ received' = received + 1
    /\ last' = Step("message", msg, "done", {received + 1}, << >>,
                    HandleAlert("T", "M", msg.value))
    /\ UNCHANGED <<sessionVars, lifecycleVars, isScannerVisible, webUri, brokerVars,
                   authEffect, uriEffect, loadVars, deviceVars,
                   origin, saved, sliceVars, paramChanges, qrWaiting, errFrom>>

\* TOPIC.CONFIRM_ALERT: a native dialog with a cancel and a confirm button.
MsgConfirmAlert(msg) ==
    /\ Receives(msg) /\ msg.kind = "json" /\ msg.hasData /\ msg.topic = "CONFIRM_ALERT"
    /\ received' = received + 1
    /\ dialogs' = dialogs \cup {[req |-> received + 1, session |-> sessions]}
    /\ last' = Step("message", msg, "waiting", {}, << >>, << >>)
    /\ UNCHANGED <<sessionVars, lifecycleVars, isScannerVisible, webUri, brokerVars,
                   authEffect, uriEffect, loadVars, storage, ops,
                   origin, saved, sliceVars, paramChanges, qrWaiting, errFrom>>

\* "download_file": handleFileDownload has no await; with file access it shows the
\* download alert and resolves, without it the thrown error is turned into
\* rejectDownload by its own catch block.
MsgDownloadUnchecked(msg) ==
    /\ Receives(msg) /\ msg.kind = "json" /\ msg.hasData /\ msg.topic = "download_file"
    /\ received' = received + 1
    /\ last' = Step("message", msg, "done", {received + 1},
                    SendResponseToWeb(<< >>, ViewShown, "resolveDownload",
                                      "success", received + 1),
                    HandleAlert("Download", "downloaded successfully", Null))
    /\ UNCHANGED <<sessionVars, lifecycleVars, isScannerVisible, webUri, brokerVars,
                   authEffect, uriEffect, loadVars, deviceVars,
                   origin, saved, sliceVars, paramChanges, qrWaiting, errFrom>>
MsgDownload(msg) ==
    /\ Receives(msg) /\ msg.kind = "json" /\ msg.hasData /\ msg.topic = "download_file"
    /\ received' = received + 1
    /\ last' = IF AllowsFileAccess(appId)
               THEN Step("message", msg, "done", {received + 1},
                         SendResponseToWeb(<< >>, ViewShown, "resolveDownload",
                                           "success", received + 1),
                         HandleAlert("Download", "downloaded successfully", Null))
               ELSE Step("message", msg, "done", {received + 1},
                         SendResponseToWeb(<< >>, ViewShown, "rejectDownload",
                                           "File access not permitted for this app",
                                           received + 1),
                         << >>)
    /\ UNCHANGED <<sessionVars, lifecycleVars, isScannerVisible, webUri, brokerVars,
                   authEffect, uriEffect, loadVars, deviceVars,
                   origin, saved, sliceVars, paramChanges, qrWaiting, errFrom>>

\* "upload_file": resolved at once.
MsgUpload(msg) ==
    /\ Receives(msg) /\ msg.kind = "json" /\ msg.topic = "upload_file"
    /\ received' = received + 1
    /\ last' = Step("message", msg, "done", {received + 1},
                    SendResponseToWeb(<< >>, ViewShown, "resolveUpload", "success",
                                      received + 1),
                    << >>)
    /\ UNCHANGED <<sessionVars, lifecycleVars, isScannerVisible, webUri, brokerVars,
                   authEffect, uriEffect, loadVars, deviceVars,
                   origin, saved, sliceVars, paramChanges, qrWaiting, errFrom>>

HandleMessage(msg) ==
    \/ MsgNotJson(msg)
    \/ MsgIgnored(msg)
    \/ MsgToken(msg)
    \/ MsgQrRequest(msg)
    \/ MsgWithoutData(msg)
    \/ MsgStorage(msg)
    \/ MsgAlert(msg)
    \/ MsgConfirmAlert(msg)
    \/ MsgDownload(msg)
    \/ MsgUpload(msg)

\* ------------------------------------------------------------- completions
\* webviewRef.current of the instance that took the request: set only while that
\* instance is the mounted one and renders its WebView.
RefSet(session) == session = sessions /\ ViewShown

\* AsyncStorage.getItem: the stored string, or null.
GetItem(store, pkey) == IF pkey \in DOMAIN store THEN store[pkey] ELSE Null
\* AsyncStorage.setItem.
SetItem(store, pkey, value) ==
    [k \in DOMAIN store \cup {pkey} |-> IF k = pkey THEN value ELSE store[k]]

\* handleSaveLocalData after its await: resolveSaveLocalData, or on a storage
\* error rejectSaveLocalData with the message.
SaveCompletesSwallowsError(op, ok) ==
    /\ EffectsFlushed /\ op \in ops /\ op.kind = "SAVE_LOCAL_DATA"
    /\ ops' = ops \ {op}
    /\ storage' = IF ok THEN SetItem(storage, op.pkey, op.value) ELSE storage
    /\ origin' = IF ok THEN SetItem(origin, op.pkey, op.app) ELSE origin
    /\ saved' = IF ok THEN SetItem(saved, <<op.app, op.key>>, op.value) ELSE saved
    /\ last' = [Step(IF ok THEN "saved" ELSE "saveFailed", NoMsg, "-", {op.req},
                     IF ok
                     THEN SendResponseToWeb(<< >>, RefSet(op.session),
                                            "resolveSaveLocalData", Null, op.req)
                     ELSE << >>,
                     << >>)
                   EXCEPT !.app = op.app, !.key = op.key]
    /\ UNCHANGED <<sessionVars, lifecycleVars, isScannerVisible, webUri, brokerVars,
                   authEffect, uriEffect, loadVars, dialogs,
                   received, paramChanges, sliceVars, qrWaiting, errFrom>>
SaveCompletes(op, ok) ==
    /\ EffectsFlushed /\ op \in ops /\ op.kind = "SAVE_LOCAL_DATA"
    /\ ops' = ops \ {op}
    /\ storage' = IF ok THEN SetItem(storage, op.pkey, op.value) ELSE storage
    /\ origin' = IF ok THEN SetItem(origin, op.pkey, op.app) ELSE origin
    /\ saved' = IF ok THEN SetItem(saved, <<op.app, op.key>>, op.value) ELSE saved
    /\ last' = [Step(IF ok THEN "saved" ELSE "saveFailed", NoMsg, "-", {op.req},
                     IF ok
                     THEN SendResponseToWeb(<< >>, RefSet(op.session),
                                            "resolveSaveLocalData", Null, op.req)
                     ELSE SendResponseToWeb(<< >>, RefSet(op.session),
                                            "rejectSaveLocalData", "Storage error", op.req),
                     << >>)
                   EXCEPT !.app = op.app, !.key = op.key]
    /\ UNCHANGED <<sessionVars, lifecycleVars, isScannerVisible, webUri, brokerVars,
                   authEffect, uriEffect, loadVars, dialogs,
                   received, paramChanges, sliceVars, qrWaiting, errFrom>>

\* handleGetLocalData after its await: resolveGetLocalData({value}), or on a
\* storage error rejectGetLocalData with the message.
GetCompletes(op, ok) ==
    /\ EffectsFlushed /\ op \in ops /\ op.kind = "GET_LOCAL_DATA"
    /\ ops' = ops \ {op}
    /\ last' = [Step(IF ok THEN "got" ELSE "getFailed", NoMsg, "-", {op.req},
                     IF ok
                     THEN SendResponseToWeb(<< >>, RefSet(op.session),
                                            "resolveGetLocalData",
                                            GetItem(storage, op.pkey), op.req)
                     ELSE SendResponseToWeb(<< >>, RefSet(op.session),
                                            "rejectGetLocalData", "Storage error", op.req),
                     << >>)
                   EXCEPT !.app = op.app, !.key = op.key,
                          !.from = IF ok /\ op.pkey \in DOMAIN origin
                                   THEN origin[op.pkey] ELSE NoId]
    /\ UNCHANGED <<sessionVars, lifecycleVars, isScannerVisible, webUri, brokerVars,
                   authEffect, uriEffect, loadVars, storage, dialogs,
                   countVars, sliceVars, qrWaiting, errFrom>>

\* A button of the confirmation dialog is pressed.
ConfirmPressAlwaysConfirms(d, choice) ==
    /\ EffectsFlushed /\ d \in dialogs
    /\ dialogs' = dialogs \ {d}
    /\ last' = Step("confirmPress", NoMsg, choice, {d.req},
                    SendResponseToWeb(<< >>, RefSet(d.session), "resolveConfirmAlert",
                                      "confirm", d.req),
                    << >>)
    /\ UNCHANGED <<sessionVars, lifecycleVars, isScannerVisible, webUri, brokerVars,
                   authEffect, uriEffect, loadVars, storage, ops,
                   countVars, sliceVars, qrWaiting, errFrom>>
ConfirmPress(d, choice) ==
    /\ EffectsFlushed /\ d \in dialogs
    /\ dialogs' = dialogs \ {d}
    /\ last' = Step("confirmPress", NoMsg, choice, {d.req},
                    SendResponseToWeb(<< >>, RefSet(d.session), "resolveConfirmAlert",
                                      choice, d.req),
                    << >>)
    /\ UNCHANGED <<sessionVars, lifecycleVars, isScannerVisible, webUri, brokerVars,
                   authEffect, uriEffect, loadVars, storage, ops,
                   countVars, sliceVars, qrWaiting, errFrom>>

\* The first of the QR requests that wait for the scanner (0: none).
FirstWaitingQr ==
    IF qrWaiting = {} THEN 0 ELSE CHOOSE i \in qrWaiting : \A j \in qrWaiting : i <= j

\* handleQrScanResult: the scanned data is sent, the overlay hidden.
QrScanResult ==
    /\ mounted /\ EffectsFlushed /\ isScannerVisible
    /\ isScannerVisible' = FALSE
    /\ qrWaiting' = {}
    /\ last' = Step("scan", NoMsg, "-", qrWaiting,
                    SendResponseToWeb(<< >>, ViewShown, "resolveQrCode", "qr",
                                      FirstWaitingQr),
                    << >>)
    /\ UNCHANGED <<sessionVars, lifecycleVars, webUri, brokerVars,
                   authEffect, uriEffect, loadVars, deviceVars, countVars, sliceVars, errFrom>>

\* The overlay's close button: setScannerVisible(false).
ScannerClose ==
    /\ mounted /\ EffectsFlushed /\ isScannerVisible
    /\ isScannerVisible' = FALSE
    /\ qrWaiting' = {}
    /\ last' = Step("scanClose", NoMsg, "-", qrWaiting, << >>, << >>)
    /\ UNCHANGED <<sessionVars, lifecycleVars, webUri, brokerVars,
                   authEffect, uriEffect, loadVars, deviceVars, countVars, sliceVars, errFrom>>

\* ------------------------------------------------------------- specification
\* The viewer's own events: effects, load callbacks, retry, developer URL.
Viewer ==
    \/ AuthEffectSkips
    \/ FetchAuthToken
    \/ FetchAuthTokenFails
    \/ UriEffect
    \/ \E found \in BOOLEAN : LocalLoadDone(found)
    \/ OnLoadStart
    \/ OnLoadEnd
    \/ OnError
    \/ StaleOnLoadEnd
    \/ StaleOnError
    \/ RetryPress
    \/ DeveloperSetUrl

\* One viewer session, from its first render to the back button, with every
\* message the content surface can post.
Next ==
    \/ NavigateBack
    \/ ParamsChange
    \/ Viewer
    \/ \E msg \in Msgs : HandleMessage(msg)
    \/ \E op \in ops, ok \in BOOLEAN : SaveCompletes(op, ok)
    \/ \E op \in ops, ok \in BOOLEAN : GetCompletes(op, ok)
    \/ \E d \in dialogs, choice \in {"cancel", "confirm"} : ConfirmPress(d, choice)
    \/ QrScanResult
    \/ ScannerClose

Spec == Init /\ [][Next]_vars

\* Successive viewer sessions and the credential broker: token requests and
\* messages the router drops.
NextBroker ==
    \/ NavigateBack
    \/ Mount
    \/ ParamsChange
    \/ Viewer
    \/ \E msg \in Msgs : MsgToken(msg)
    \/ \E msg \in Msgs : MsgNotJson(msg)
    \/ \E msg \in Msgs : MsgIgnored(msg)

SpecBroker == Init /\ [][NextBroker]_vars

\* Successive viewer sessions over the device's storage: storage requests and
\* their completions.
NextStorage ==
    \/ NavigateBack
    \/ Mount
    \/ Viewer
    \/ \E msg \in Msgs : MsgStorage(msg)
    \/ \E msg \in Msgs : MsgWithoutData(msg)
    \/ \E op \in ops, ok \in BOOLEAN : SaveCompletes(op, ok)
    \/ \E op \in ops, ok \in BOOLEAN : GetCompletes(op, ok)

SpecStorage == Init /\ [][NextStorage]_vars

\* Successive viewer sessions and the file capabilities: download and upload
\* requests, with and without their data object.
NextFiles ==
    \/ NavigateBack
    \/ Mount
    \/ Viewer
    \/ \E msg \in Msgs : MsgDownload(msg)
    \/ \E msg \in Msgs : MsgUpload(msg)
    \/ \E msg \in Msgs : MsgWithoutData(msg)

SpecFiles == Init /\ [][NextFiles]_vars

\* Successive viewer sessions and the native dialogs: alert and confirmation
\* requests and the user's answer.
NextDialogs ==
    \/ NavigateBack
    \/ Mount
    \/ Viewer
    \/ \E msg \in Msgs : MsgAlert(msg)
    \/ \E msg \in Msgs : MsgConfirmAlert(msg)
    \/ \E msg \in Msgs : MsgWithoutData(msg)
    \/ \E d \in dialogs, choice \in {"cancel", "confirm"} : ConfirmPress(d, choice)

SpecDialogs == Init /\ [][NextDialogs]_vars

\* One viewer session whose content surface posts its storage requests only
\* once it is loaded, with load errors, reloads and retries while they are in
\* progress.
MsgStorageWhenReady(msg) == Lifecycle = "Ready" /\ MsgStorage(msg)
NextRecovery ==
    \/ Viewer
    \/ \E msg \in Msgs : MsgStorageWhenReady(msg)
    \/ \E op \in ops, ok \in BOOLEAN : SaveCompletes(op, ok)
    \/ \E op \in ops, ok \in BOOLEAN : GetCompletes(op, ok)

SpecRecovery == Init /\ [][NextRecovery]_vars

\* ------------------------------------------------------------- claims
\* The invocations the last step injected for request r.
Responses(r) == {i \in DOMAIN last.sent : last.sent[i].req = r}
Malformed(msg) == msg.kind = "nonjson" \/ (msg.kind = "json" /\ msg.topic = "")
RejectMethods == {"rejectSaveLocalData", "rejectGetLocalData", "rejectDownload"}

\* C1: when fetchAuthToken supplies the credential, the continuations of the TOKEN
\* requests queued before it are called in the order the requests arrived, each
\* with the token just fetched; every invocation injected carries that token and
\* the queue is empty afterwards.
C1_DrainFifoSameToken ==
    last.event = "fetched" =>
        /\ last.drain.calls =
               [i \in 1..Len(last.drain.before) |->
                    <<last.drain.before[i], last.drain.token>>]
        /\ last.drain.token = authToken
        /\ \A i \in DOMAIN last.sent :
               last.sent[i].method = "resolveToken" /\ last.sent[i].data = authToken
        /\ pendingTokenRequests = << >>
\* A fetch that found at least two requests queued.
C1_Witness == last.event = "fetched" /\ Len(last.drain.before) >= 2

\* C2: every request on a response-bearing topic that a step finishes has got
\* exactly one resolve-or-reject invocation.
C2_ExactlyOneResponse ==
    \A r \in last.settled :
        (last.event = "message" => last.msg.topic \in ResponseTopics)
            => Cardinality(Responses(r)) = 1

\* C3: a message is dispatched to a handler only while the lifecycle is Ready.
C3_DispatchOnlyWhenReady ==
    (last.event = "message" /\ last.msg.kind = "json" /\ last.msg.topic \in Topics)
        => last.life = "Ready"

\* C4: the error flag is never set by the failure callback of a load that a
\* reload had already abandoned.
C4_NoStaleError == ~(hasError /\ errFrom = "abandoned")

\* C5: a get never returns a value that a different identity saved.
C5_NoCrossIdentityRead ==
    (last.event = "got" /\ last.from # NoId) => last.from = last.app

\* C6: a completed save of key k under identity A leaves what a get of the same
\* key k under any other identity B reads unchanged.
C6_SaveInvisibleToOtherIdentity ==
    [][last'.event = "saved" =>
          \A B \in AppIds \ {last'.app} :
              GetItem(storage', PhysicalKey(B, last'.key))
                  = GetItem(storage, PhysicalKey(B, last'.key))]_vars
\* A save completed under one identity while another identity holds a value it
\* saved itself under the same key.
C6_Witness ==
    /\ last.event = "saved"
    /\ \E B \in AppIds \ {last.app} :
           /\ PhysicalKey(B, last.key) \in DOMAIN storage
           /\ origin[PhysicalKey(B, last.key)] = B

\* C7: a message that is not JSON, or has no topic, injects nothing, shows
\* nothing and changes no state of the bridge; the WebView stays mounted and
\* its next message is received.
C7_MalformedIsDropped ==
    [][(last'.event = "message" /\ Malformed(last'.msg)) =>
          /\ UNCHANGED bridgeVars
          /\ UNCHANGED <<sessionVars, loadVars, origin, qrWaiting>>
          /\ last'.sent = << >>
          /\ last'.shown = << >>
          /\ last'.handled = "dropped"
          /\ ViewShown' /\ EffectsFlushed']_vars
\* A malformed message has just been dropped and a further message can arrive.
C7_Witness ==
    /\ last.event = "message" /\ Malformed(last.msg)
    /\ ViewShown /\ EffectsFlushed /\ received < MaxReq

\* C8: a SAVE_LOCAL_DATA, GET_LOCAL_DATA or download_file request whose handling
\* fails, on a missing data object or inside the handler, is answered with the
\* topic's reject invocation.
C8_FailureBecomesRejection ==
    /\ (last.event = "message" /\ last.handled = "threw"
            /\ last.msg.topic \in {"SAVE_LOCAL_DATA", "GET_LOCAL_DATA", "download_file"})
           => \E i \in DOMAIN last.sent : last.sent[i].method \in RejectMethods
    /\ last.event \in {"saveFailed", "getFailed"}
           => \E i \in DOMAIN last.sent : last.sent[i].method \in RejectMethods

\* C9: after a failed fetchAuthToken no continuation is left in the queue and no
\* credential is held.
C9_FetchFailureRejectsAll ==
    last.event = "fetchFailed" => (pendingTokenRequests = << >> /\ authToken = Null)

\* C10: once the viewer is unmounted the pending token queue is empty.
C10_TeardownReleasesQueue == ~mounted => pendingTokenRequests = << >>

\* C11: the retry action taken in the Errored state leaves the lifecycle in
\* Loading (error flag cleared, loading flag set), and no step of a mounted
\* viewer goes from Errored directly to Ready.
C11_RetryReentersLoading ==
    [][/\ (last'.event = "retry" =>
              (Lifecycle = "Errored" /\ ~hasError' /\ isLoading' /\ Lifecycle' = "Loading"))
       /\ ~(mounted /\ mounted' /\ Lifecycle = "Errored" /\ Lifecycle' = "Ready")]_vars
\* A retry has just been taken after a failure of the current load.
C11_Witness == last.event = "retry" /\ Lifecycle = "Loading" /\ mounted

\* The "Try Again" button is rendered: only renderError has one.
RetryAvailable == mounted /\ hasError

\* C12: whenever the content source is settled and the content surface is not
\* shown (a failed load, a local bundle that was not found, no content), the
\* retry action is available.
C12_FailureAlwaysRecoverable ==
    (mounted /\ uriEffect = "done" /\ ~ViewShown) => RetryAvailable

\* C13: while the error flag is set the WebView is not mounted (it has no load
\* in progress, delivers no callback and no message) and the retry button is
\* rendered in its place.
C13_ErroredHidesContent ==
    /\ (mounted /\ hasError) =>
           (~ViewShown /\ curLoad = "none" /\ ~staleLoad /\ RetryAvailable)
    /\ last.event = "message" => last.life # "Errored"
\* The error view stands where renderWebView would return a WebView.
C13_Witness ==
    /\ mounted /\ hasError /\ ~ViewShown
    /\ RenderWebView(webViewUri, appId, webUri) = "webview"

\* C14: the loading flag and the error flag are never both set, and a viewer
\* that has not yet run its content-source effect is in Loading.
C14_FlagsNeverBothSet ==
    /\ ~(isLoading /\ hasError)
    /\ (mounted /\ uriEffect = "pending") => Lifecycle = "Loading"
\* An error event has arrived for the current load and cleared the loading flag.
C14_Witness == hasError /\ ~isLoading /\ errFrom = "current" /\ Lifecycle = "Errored"

\* C15: a TOKEN request received while a token is held is answered in the same
\* step by exactly one resolveToken carrying the held token, and is not put in
\* the pending queue.
C15_HeldTokenAnswersAtOnce ==
    (last.event = "message" /\ last.msg.topic = "TOKEN" /\ authToken # Null) =>
        /\ last.sent = <<[method |-> "resolveToken", data |-> authToken,
                          req |-> received]>>
        /\ last.settled = {received}
        /\ \A i \in DOMAIN pendingTokenRequests : pendingTokenRequests[i] # received
\* A TOKEN request has just been answered from the held token.
C15_Witness ==
    /\ last.event = "message" /\ last.msg.topic = "TOKEN" /\ last.handled = "done"
    /\ authToken # Null /\ Len(last.sent) = 1

\* The number of times the drain called the continuation of request r.
TimesCalled(r) == Cardinality({j \in DOMAIN last.drain.calls : last.drain.calls[j][1] = r})

\* C16: a fetch that supplies the token drains the pending queue once: every
\* request that was waiting has its continuation called exactly once, nothing
\* else is called, each call injects one resolveToken, and the queue is empty
\* afterwards.
C16_DrainedExactlyOnce ==
    last.event = "fetched" =>
        /\ \A i \in DOMAIN last.drain.before : TimesCalled(last.drain.before[i]) = 1
        /\ Len(last.drain.calls) = Len(last.drain.before)
        /\ ViewShown => Len(last.sent) = 1 + Len(last.drain.before)
        /\ pendingTokenRequests = << >>
\* A fetch drained two waiting requests and injected its own response and theirs.
C16_Witness ==
    /\ last.event = "fetched" /\ Len(last.drain.before) = 2
    /\ Len(last.sent) = 3 /\ pendingTokenRequests = << >>

DeniedMessage == "File access not permitted for this app"
Sends(method) == \E i \in DOMAIN last.sent : last.sent[i].method = method

C18_FileHandlersCheckFlag ==
    (last.event = "message" /\ last.msg.topic \in {"upload_file", "download_file"}
         /\ ~AllowsFileAccess(appId)) =>
        (~Sends("resolveUpload") /\ ~Sends("resolveDownload"))

\* C19: no two storage requests of one session on the same topic are in
\* progress at the same time: the second is not started while the first one's
\* AsyncStorage call is pending.
C19_OneInFlightPerTopic ==
    \A o1, o2 \in ops :
        (o1.session = o2.session /\ o1.kind = o2.kind) => o1.req = o2.req

UnknownTopic(msg) == msg.kind = "json" /\ msg.topic \notin Topics \cup {""}

\* C20: a message whose topic is none of the recognized topics injects nothing
\* and shows nothing, and leaves the token, the pending queue, the storage, the
\* scanner and the lifecycle flags as they were; the WebView stays mounted and
\* its next message is received.
C20_UnknownTopicIsDropped ==
    [][(last'.event = "message" /\ UnknownTopic(last'.msg)) =>
          /\ last'.sent = << >> /\ last'.shown = << >>
          /\ UNCHANGED <<authToken, pendingTokenRequests, storage, ops, dialogs,
                         isScannerVisible, qrWaiting, isLoading, hasError, webUri>>
          /\ Lifecycle' = Lifecycle
          /\ ViewShown' /\ EffectsFlushed']_vars
\* An unknown topic has just been dropped and a further message can arrive.
C20_Witness ==
    /\ last.event = "message" /\ UnknownTopic(last.msg) /\ last.handled = "dropped"
    /\ ViewShown /\ EffectsFlushed /\ received < MaxReq

C22_GetStableWithoutSave ==
    [][\A A \in AppIds, k \in Keys :
           GetItem(storage', PhysicalKey(A, k)) # GetItem(storage, PhysicalKey(A, k))
               => (last'.event = "saved" /\ last'.app = A /\ last'.key = k)]_vars

C24_AlertDefaultsToOk ==
    (last.event = "message" /\ last.msg.topic = "ALERT" /\ last.msg.hasData
         /\ last.msg.value = Null) =>
        /\ last.shown = <<[title |-> "T", message |-> "M", button |-> "OK"]>>
        /\ last.sent = << >>
\* An ALERT request without buttonText has just been shown.
C24_Witness ==
    /\ last.event = "message" /\ last.msg.topic = "ALERT" /\ last.msg.hasData
    /\ last.msg.value = Null /\ Len(last.shown) = 1

\* Steps of the router and of the handlers it started.
RouterEvents ==
    {"message", "saved", "saveFailed", "got", "getFailed", "confirmPress", "scan",
     "scanClose"}

\* C25: no step of the router or of a handler, on any topic and whether it
\* succeeds or fails, changes the loading flag or the error flag; in a mounted
\* viewer the flags change only on load callbacks, retry and URL change.
C25_RouterKeepsLifecycle ==
    [][/\ last'.event \in RouterEvents => UNCHANGED <<isLoading, hasError>>
       /\ (mounted /\ mounted' /\ <<isLoading, hasError>>' # <<isLoading, hasError>>)
              => last'.event \in {"idle", "retry"}]_vars
\* A message whose handling threw was handled while Loading, and the lifecycle
\* is still Loading.
C25_Witness ==
    /\ last.event = "message" /\ last.handled = "threw"
    /\ last.life = "Loading" /\ Lifecycle = "Loading"

\* The session parameters supply both a client identifier and a token.
HasMaterial == clientId /\ exchangedToken
\* The step is a run of the auth effect.
AuthEffectRuns == mounted /\ authEffect /\ ~authEffect'

C27_SubmittedUrlIsLoaded ==
    (mounted /\ webUri = "devurl" /\ ViewShown) =>
        WebViewSource(webViewUri, appId, webUri) = [kind |-> "uri", value |-> "devurl"]

\* C28: a step of a mounted viewer that sets or clears the error flag (a load
\* error, a retry) leaves the held token, the pending token queue, the stored
\* data and the requests in progress as they were; an error or a retry also
\* leaves the content source as it was.
C28_ErrorAndRetryKeepRequests ==
    [][(mounted /\ mounted' /\ (hasError' # hasError \/ last'.event = "retry")) =>
          /\ UNCHANGED <<authToken, pendingTokenRequests, storage, ops, dialogs,
                         qrWaiting, isScannerVisible>>
          /\ (hasError' \/ last'.event = "retry") => webUri' = webUri]_vars
\* A retry has just been taken with a token request waiting and a storage call
\* in progress.
C28_Witness ==
    /\ last.event = "retry" /\ Len(pendingTokenRequests) >= 1 /\ ops # {}

\* C29: a storage request accepted while Ready whose call completes while the
\* error view is shown has its response injected.
C29_ResponseSurvivesError ==
    (last.event \in {"saved", "saveFailed", "got", "getFailed"} /\ mounted /\ hasError)
        => Len(last.sent) = 1

\* C30: when the session has no webViewUri parameter and the local bundle was
\* found and read, the WebView is rendered with the bundle's html, as it is for
\* webViewUri = 'local'.
C30_MissingUriLoadsLocal ==
    (mounted /\ ~hasError /\ webViewUri \in {"none", "local"} /\ webUri = "html") =>
        /\ ViewShown
        /\ WebViewSource(webViewUri, appId, webUri) = [kind |-> "html", value |-> "html"]

\* The auth slice of the store under any dispatches: the three thunks, at most
\* MaxInFlight of them in flight, and the plain reducers.
InitSlice == Init /\ appId = IdA /\ webViewUri = "remote"
NextSlice ==
    \/ \E username \in Usernames, password \in Passwords : DispatchLogin(username, password)
    \/ \E i \in DOMAIN thunks : LoginSettles(i)
    \/ DispatchRefresh
    \/ \E i \in DOMAIN thunks : RefreshSettles(i)
    \/ DispatchLogout
    \/ \E i \in DOMAIN thunks : LogoutSettles(i)
    \/ ClearError
    \/ \E payload \in AccessTokenPayloads : SetAccessToken(payload)
    \/ LoadDummyAuth
    \/ ResetAuth

SpecSlice == InitSlice /\ [][NextSlice]_vars

\* ------------------------------------------------------------- C31
\* One viewer session left to itself: the effects, the local lookup, the load
\* callbacks of the WebView, token requests and the retry button.  No url is
\* typed into the developer prompt, so no load in progress is abandoned.
NextLoading ==
    \/ ParamsChange
    \/ AuthEffectSkips
    \/ FetchAuthToken
    \/ FetchAuthTokenFails
    \/ UriEffect
    \/ \E found \in BOOLEAN : LocalLoadDone(found)
    \/ OnLoadStart
    \/ OnLoadEnd
    \/ OnError
    \/ RetryPress
    \/ \E msg \in Msgs : MsgToken(msg)

\* Effects run after the render that scheduled them, the local lookup returns,
\* and the native WebView delivers the callbacks of every load it started.
LoadingFairness ==
    /\ WF_vars(AuthEffectSkips \/ FetchAuthToken \/ FetchAuthTokenFails)
    /\ WF_vars(UriEffect)
    /\ WF_vars(\E found \in BOOLEAN : LocalLoadDone(found))
    /\ WF_vars(OnLoadStart)
    /\ WF_vars(OnLoadEnd \/ OnError)

SpecLoading == Init /\ [][NextLoading]_vars /\ LoadingFairness

\* C31: from the initial Loading state the loading flag eventually becomes
\* false, whatever the content source.
C31_EventuallyLeavesLoading == <>(~isLoading)

\* ------------------------------------------------------------- C32
\* C32: while a credential is held the pending token queue is empty: no token
\* request is queued after the credential arrived and none stays queued once it
\* has arrived.
C32_NoQueueWhileCredentialHeld == authToken # Null => pendingTokenRequests = << >>
\* The credential arrives with one request waiting, which leaves the queue.
C32_Witness ==
    /\ authToken # Null
    /\ pendingTokenRequests = << >>
    /\ last.event = "fetched"
    /\ Len(last.drain.before) = 1

\* ------------------------------------------------------------- C33
\* C33: a get of key k under identity A that succeeds is answered with
\* resolveGetLocalData carrying the value of the last completed save of k under
\* A, and with null when k was never saved under A.
C33_StorageRoundTrip ==
    last.event = "got" =>
        \A i \in DOMAIN last.sent :
            /\ last.sent[i].method = "resolveGetLocalData"
            /\ last.sent[i].data = GetItem(saved, <<last.app, last.key>>)

\* ------------------------------------------------------------- C34
\* C34: in the auth slice, under every interleaving of the thunks and the plain
\* reducers, isAuthenticated = true implies that accessToken is not null.
C34_AuthenticatedHasToken == auth.isAuthenticated => auth.accessToken # Null
\* Authenticated with a refreshed token while another thunk is still in flight.
C34_Witness ==
    /\ auth.isAuthenticated
    /\ authLast.type = "refreshToken/fulfilled"
    /\ auth.accessToken = RefreshResponse.access_token
    /\ thunks # << >>

\* ------------------------------------------------------------- C35
\* C35: a refreshToken thunk that fulfils right after logoutUser has fulfilled
\* or loginUser has been rejected leaves the state without an access token.
C35_RefreshAfterSignOutLeavesNoToken ==
    [][(/\ authLast.type \in {"logoutUser/fulfilled", "loginUser/rejected"}
        /\ authLast'.type = "refreshToken/fulfilled")
           => auth'.accessToken = Null]_vars

C37_LoadingIffInFlight ==
    authLast.type \in {"loginUser/pending", "loginUser/fulfilled", "loginUser/rejected",
                       "refreshToken/pending", "refreshToken/fulfilled",
                       "refreshToken/rejected", "logoutUser/pending",
                       "logoutUser/fulfilled"}
        => (auth.isLoading <=> thunks # << >>)
====
